---------------------------- MODULE Spec2Model ----------------------------
(***************************************************************************)
(* The fintech-loan-analysis batch pipeline: data_cleaning.main,           *)
(* data_transformation.main and database_setup.setup_database, each        *)
(* reading one CSV artifact and writing the next.                          *)
(*                                                                         *)
(* A CSV file is a table of text cells; a text is a sequence of one-       *)
(* character strings, so that stripping, searching and parsing are         *)
(* computed on the characters.  A DataFrame is the typed table pandas      *)
(* builds from it (read_csv) and writes back (to_csv).  Numerals are       *)
(* whole numbers: 13 stands for what pandas prints as 13.0.                *)
(***************************************************************************)
EXTENDS Integers, Sequences, FiniteSets, TLC

VARIABLES
    rawFile,              \* data/raw/lending_club_raw.csv
    cleanedFile,          \* data/cleaned_data.csv
    processedFile,        \* data/processed_data.csv
    resultsDir,           \* does results/ exist
    cleaningReport,       \* results/cleaning_report.txt: its STEPS PERFORMED lines
    transformationReport, \* results/transformation_report.txt: its NEW FEATURES lines
    db,                   \* database/loan_analysis.db
    pc,                   \* position of the running data_cleaning.main
    df,                   \* its DataFrame
    steps,                \* its steps list
    ret,                  \* what the last finished stage returned
    recleaned,            \* the raw file is a copy of an earlier cleaned output
    extractionReport,     \* does results/extraction_report.txt exist
    edaReport,            \* does results/eda_report.txt exist
    dashboard,            \* dashboard/: the charts, the index and the last run's drawing
    cwdRawFile            \* data/raw/lending_club_raw.csv under a working directory
                          \* that is not the project root

vars == <<rawFile, cleanedFile, processedFile, resultsDir, cleaningReport,
          transformationReport, db, pc, df, steps, ret, recleaned,
          extractionReport, edaReport, dashboard, cwdRawFile>>

-----------------------------------------------------------------------------
(* Bounds of the model *)

\* most rows of a raw file
MaxRows == 6

\* most rows of a cleaned file given to the transformation
MaxRowsT == 2

\* most rows of a processed file given to the database loader
MaxRowsD == 2

-----------------------------------------------------------------------------
(* Texts *)

DigitChars == {"0", "1", "2", "3", "4", "5", "6", "7", "8", "9"}

DigitVal(c) ==
    CASE c = "0" -> 0 [] c = "1" -> 1 [] c = "2" -> 2 [] c = "3" -> 3
      [] c = "4" -> 4 [] c = "5" -> 5 [] c = "6" -> 6 [] c = "7" -> 7
      [] c = "8" -> 8 [] c = "9" -> 9

DigitChar(n) ==
    CASE n = 0 -> "0" [] n = 1 -> "1" [] n = 2 -> "2" [] n = 3 -> "3"
      [] n = 4 -> "4" [] n = 5 -> "5" [] n = 6 -> "6" [] n = 7 -> "7"
      [] n = 8 -> "8" [] n = 9 -> "9"

IsDigits(s) == Len(s) > 0 /\ \A i \in 1..Len(s) : s[i] \in DigitChars

Front(s) == SubSeq(s, 1, Len(s) - 1)

RECURSIVE NatOf(_)
NatOf(s) == IF s = <<>> THEN 0 ELSE NatOf(Front(s)) * 10 + DigitVal(s[Len(s)])

RECURSIVE ToDigits(_)
ToDigits(n) ==
    IF n < 10 THEN <<DigitChar(n)>>
    ELSE ToDigits(n \div 10) \o <<DigitChar(n % 10)>>

\* str.rstrip(ch): every trailing ch is removed
RECURSIVE RStrip(_, _)
RStrip(s, ch) ==
    IF s # <<>> /\ s[Len(s)] = ch THEN RStrip(Front(s), ch) ELSE s

NanText == <<"n", "a", "n">>
InfText == <<"i", "n", "f">>

-----------------------------------------------------------------------------
(* Cells of a DataFrame *)

NaN == [k |-> "nan", s |-> <<>>, n |-> 0]
Inf == [k |-> "inf", s |-> <<>>, n |-> 0]
Num(n) == [k |-> "num", s |-> <<>>, n |-> n]
Str(s) == [k |-> "str", s |-> s, n |-> 0]

IsNull(c) == c.k = "nan"

\* the texts float() accepts, among those of the model
IsFloatText(t) == IsDigits(t) \/ t = NanText \/ t = InfText

\* float(t), for a text float() accepts
ParseFloat(t) ==
    IF t = NanText THEN NaN
    ELSE IF t = InfText THEN Inf
    ELSE Num(NatOf(t))

\* str(cell): what astype(str) and to_csv print for a value
CellText(c) ==
    CASE c.k = "nan" -> NanText
      [] c.k = "inf" -> InfText
      [] c.k = "num" -> ToDigits(c.n)
      [] c.k = "str" -> c.s

-----------------------------------------------------------------------------
(* CSV files and DataFrames *)

NoFile == [exists |-> FALSE, cols |-> {}, rows |-> <<>>]

File(cols, rows) == [exists |-> TRUE, cols |-> cols, rows |-> rows]

NoFrame == [cols |-> {}, rows |-> <<>>]

\* the texts read_csv takes for a missing value (its default na_values)
NaTexts == {<<>>, NanText, <<"n", "/", "a">>, <<"N", "a", "N">>}

\* read_csv's type of a column: numeric when every value present is a numeral
NumericText(t) == IsDigits(t) \/ t = InfText

ColumnIsNumeric(f, c) ==
    \A i \in 1..Len(f.rows) : f.rows[i][c] \in NaTexts \/ NumericText(f.rows[i][c])

ReadCell(f, c, t) ==
    IF t \in NaTexts THEN NaN
    ELSE IF ColumnIsNumeric(f, c) THEN ParseFloat(t)
    ELSE Str(t)

\* pd.read_csv raises EmptyDataError on a file without columns
CanReadCsv(f) == f.cols # {}

\* pd.read_csv(path): the index is 0..n-1
ReadCsv(f) ==
    [cols |-> f.cols,
     rows |-> [i \in 1..Len(f.rows) |->
                 [idx |-> i - 1,
                  val |-> [c \in f.cols |-> ReadCell(f, c, f.rows[i][c])]]]]

\* df.to_csv(path, index=False): a missing value is written as the empty text
WriteCell(c) == IF IsNull(c) THEN <<>> ELSE CellText(c)

ToCsv(d) ==
    File(d.cols,
         [i \in 1..Len(d.rows) |-> [c \in d.cols |-> WriteCell(d.rows[i].val[c])]])

\* the rows at the positions in S, in order
RECURSIVE KeepAt(_, _)
KeepAt(rows, S) ==
    IF rows = <<>> THEN <<>>
    ELSE IF Len(rows) \in S THEN Append(KeepAt(Front(rows), S), rows[Len(rows)])
    ELSE KeepAt(Front(rows), S)

\* df.drop(columns=gone)
DropColumns(d, gone) ==
    [cols |-> d.cols \ gone,
     rows |-> [i \in 1..Len(d.rows) |->
                 [idx |-> d.rows[i].idx,
                  val |-> [c \in d.cols \ gone |-> d.rows[i].val[c]]]]]

\* df[col].isnull().sum()
NullCount(d, c) == Cardinality({i \in 1..Len(d.rows) : IsNull(d.rows[i].val[c])})

\* a fill where the drop should be: df[c].fillna(0)
DropNaFilled(d, c) ==
    [cols |-> d.cols,
     rows |-> [i \in 1..Len(d.rows) |->
                 [idx |-> d.rows[i].idx,
                  val |-> [x \in d.cols |->
                             IF x = c /\ IsNull(d.rows[i].val[x]) THEN Num(0)
                             ELSE d.rows[i].val[x]]]]]

\* df.dropna(subset=[c])
DropNa(d, c) ==
    [cols |-> d.cols,
     rows |-> KeepAt(d.rows, {i \in 1..Len(d.rows) : ~IsNull(d.rows[i].val[c])})]

-----------------------------------------------------------------------------
(* data_cleaning.main, step by step *)

\* an entry of the steps list: what was done, to which column, how much
StepEntry(what, col, n) == [what |-> what, col |-> col, n |-> n]

\* 1. df.dropna(axis=1, how='all'): a column goes when no row has a value in
\*    it, which is every column of a table without rows
EmptyCols(d) == {c \in d.cols : \A i \in 1..Len(d.rows) : IsNull(d.rows[i].val[c])}

DropEmptyCols(d) == DropColumns(d, EmptyCols(d))

\* 2. missing_pct > 0.8, the threshold as the fraction 4/5
HighMissingNum == 4
HighMissingDen == 5

HighMissing(d) ==
    {c \in d.cols :
        Len(d.rows) > 0
        /\ NullCount(d, c) * HighMissingDen > HighMissingNum * Len(d.rows)}

DropHighMissing(d) == DropColumns(d, HighMissing(d))

\* 3. df.drop_duplicates(): the first of equal rows stays
\*    (a frame without columns or without rows is returned as it is)
DropDuplicates(d) ==
    IF d.cols = {} \/ d.rows = <<>> THEN d
    ELSE [cols |-> d.cols,
          rows |-> KeepAt(d.rows,
                          {i \in 1..Len(d.rows) :
                             \A j \in 1..(i - 1) : d.rows[j].val # d.rows[i].val})]

\* 4. the key columns, in the order of the loop
key_cols == <<"loan_amnt", "term", "int_rate", "grade", "loan_status">>

KeyColSet == {key_cols[i] : i \in 1..Len(key_cols)}

\* the loop over key_cols[i..]: the frame and the steps list after it
RECURSIVE CleanKeyCols(_, _, _)
CleanKeyCols(d, st, i) ==
    IF i > Len(key_cols) THEN [df |-> d, steps |-> st]
    ELSE LET col == key_cols[i]
         IN  IF col \in d.cols /\ NullCount(d, col) > 0
             THEN CleanKeyCols(DropNa(d, col),
                               Append(st, StepEntry("missing", col, NullCount(d, col))),
                               i + 1)
             ELSE CleanKeyCols(d, st, i + 1)

\* 5. df[c].astype(str).str.rstrip('%').astype(float)
PctText(cell) == RStrip(CellText(cell), "%")

CanConvertPct(d, c) == \A i \in 1..Len(d.rows) : IsFloatText(PctText(d.rows[i].val[c]))

\* a rate turned into a fraction: the parsed number divided by 100
ConvertPctFraction(d, c) ==
    [cols |-> d.cols,
     rows |-> [i \in 1..Len(d.rows) |->
                 [idx |-> d.rows[i].idx,
                  val |-> [x \in d.cols |->
                             IF x = c /\ ParseFloat(PctText(d.rows[i].val[x])).k = "num"
                             THEN Num(ParseFloat(PctText(d.rows[i].val[x])).n \div 100)
                             ELSE d.rows[i].val[x]]]]]

ConvertPct(d, c) ==
    [cols |-> d.cols,
     rows |-> [i \in 1..Len(d.rows) |->
                 [idx |-> d.rows[i].idx,
                  val |-> [x \in d.cols |->
                             IF x = c THEN ParseFloat(PctText(d.rows[i].val[x]))
                             ELSE d.rows[i].val[x]]]]]

\* the columns step 5 converts, in its order
PctCols == <<"int_rate", "revol_util">>

RECURSIVE CanConvertAll(_, _)
CanConvertAll(d, i) ==
    IF i > Len(PctCols) THEN TRUE
    ELSE IF PctCols[i] \in d.cols
         THEN CanConvertPct(d, PctCols[i]) /\ CanConvertAll(ConvertPct(d, PctCols[i]), i + 1)
         ELSE CanConvertAll(d, i + 1)

RECURSIVE ConvertAll(_, _, _)
ConvertAll(d, st, i) ==
    IF i > Len(PctCols) THEN [df |-> d, steps |-> st]
    ELSE IF PctCols[i] \in d.cols
         THEN ConvertAll(ConvertPct(d, PctCols[i]),
                         Append(st, StepEntry("converted", PctCols[i], 0)), i + 1)
         ELSE ConvertAll(d, st, i + 1)

\* no stage is in the middle of its run (the stages run one after another)
NoStageRunning ==
    pc \in {"idle", "acquired", "extracted", "done", "transformed", "loaded", "dashboard", "eda"}

\* the run ends without a frame: None is returned
Finish(value) == pc' = "done" /\ ret' = value /\ df' = NoFrame /\ steps' = <<>>

\* the run ends with "return df"
ReturnFrame == pc' = "done" /\ ret' = "df" /\ UNCHANGED <<df, steps>>

\* lines 24-42: the data/ directory is made, the raw file looked for and loaded
CleanStart ==
    /\ NoStageRunning
    /\ \/ /\ ~rawFile.exists
          /\ Finish("None")
       \/ /\ rawFile.exists
          /\ ~CanReadCsv(rawFile)
          /\ Finish("None")
       \/ /\ rawFile.exists
          /\ CanReadCsv(rawFile)
          /\ df' = ReadCsv(rawFile)
          /\ steps' = <<>>
          /\ pc' = "empty_cols"
          /\ ret' = "running"
    /\ UNCHANGED <<rawFile, cleanedFile, processedFile, resultsDir, cleaningReport,
                   transformationReport, db, recleaned,
                   extractionReport, edaReport, dashboard, cwdRawFile>>

\* lines 47-52
CleanEmptyCols ==
    /\ pc = "empty_cols"
    /\ df' = DropEmptyCols(df)
    /\ steps' = IF EmptyCols(df) # {}
                THEN Append(steps, StepEntry("empty", "", Cardinality(EmptyCols(df))))
                ELSE steps
    /\ pc' = "high_missing"
    /\ UNCHANGED <<rawFile, cleanedFile, processedFile, resultsDir, cleaningReport,
                   transformationReport, db, ret, recleaned,
                   extractionReport, edaReport, dashboard, cwdRawFile>>

\* lines 54-59
CleanHighMissing ==
    /\ pc = "high_missing"
    /\ df' = DropHighMissing(df)
    /\ steps' = IF HighMissing(df) # {}
                THEN Append(steps, StepEntry("high_missing", "", Cardinality(HighMissing(df))))
                ELSE steps
    /\ pc' = "duplicates"
    /\ UNCHANGED <<rawFile, cleanedFile, processedFile, resultsDir, cleaningReport,
                   transformationReport, db, ret, recleaned,
                   extractionReport, edaReport, dashboard, cwdRawFile>>

\* lines 61-66
CleanDuplicates ==
    /\ pc = "duplicates"
    /\ df' = DropDuplicates(df)
    /\ steps' = IF Len(DropDuplicates(df).rows) < Len(df.rows)
                THEN Append(steps, StepEntry("duplicates", "",
                                             Len(df.rows) - Len(DropDuplicates(df).rows)))
                ELSE steps
    /\ pc' = "key_cols"
    /\ UNCHANGED <<rawFile, cleanedFile, processedFile, resultsDir, cleaningReport,
                   transformationReport, db, ret, recleaned,
                   extractionReport, edaReport, dashboard, cwdRawFile>>

\* lines 68-75
CleanKeys ==
    /\ pc = "key_cols"
    /\ df' = CleanKeyCols(df, steps, 1).df
    /\ steps' = CleanKeyCols(df, steps, 1).steps
    /\ pc' = "percent"
    /\ UNCHANGED <<rawFile, cleanedFile, processedFile, resultsDir, cleaningReport,
                   transformationReport, db, ret, recleaned,
                   extractionReport, edaReport, dashboard, cwdRawFile>>

\* lines 77-84; a text that is no number raises, and the except clause returns None
CleanPercent ==
    /\ pc = "percent"
    /\ \/ /\ CanConvertAll(df, 1)
          /\ df' = ConvertAll(df, steps, 1).df
          /\ steps' = ConvertAll(df, steps, 1).steps
          /\ pc' = "save"
          /\ UNCHANGED ret
       \/ /\ ~CanConvertAll(df, 1)
          /\ Finish("None")
    /\ UNCHANGED <<rawFile, cleanedFile, processedFile, resultsDir, cleaningReport,
                   transformationReport, db, recleaned,
                   extractionReport, edaReport, dashboard, cwdRawFile>>

\* lines 86-125: the cleaned file is written, then the report; results/ is not
\* made here, and open() raises when it is missing
CleanSave ==
    /\ pc = "save"
    /\ cleanedFile' = ToCsv(df)
    /\ \/ /\ resultsDir
          /\ cleaningReport' = File({}, steps)
          /\ ReturnFrame
       \/ /\ ~resultsDir
          /\ UNCHANGED cleaningReport
          /\ Finish("None")
    /\ UNCHANGED <<rawFile, processedFile, resultsDir, transformationReport, db, recleaned,
                   extractionReport, edaReport, dashboard, cwdRawFile>>

\* the report is written whatever the file
RawLoadsAlways(f) == TRUE

\* lines 27-39 of data_extraction.py: the raw file is there and read_csv loads it
RawLoads(f) == f.exists /\ CanReadCsv(f)

\* data_extraction.main: results/ is made before the raw file is looked for;
\* the raw file is only read (a sample of it is described in a report)
Extraction ==
    /\ NoStageRunning
    /\ resultsDir' = TRUE
    /\ pc' = "extracted"
    /\ ret' = IF RawLoads(rawFile) THEN "df" ELSE "None"
    /\ extractionReport' = (extractionReport \/ RawLoads(rawFile))
    /\ df' = NoFrame
    /\ steps' = <<>>
    /\ UNCHANGED <<rawFile, cleanedFile, processedFile, cleaningReport,
                   transformationReport, db, recleaned, edaReport, dashboard, cwdRawFile>>

\* cleaning is run again on its own output: the cleaned file written by the run
\* that just returned its frame takes the place of the raw file
ReuseCleanedAsRaw ==
    /\ pc = "done"
    /\ ret = "df"
    /\ rawFile' = cleanedFile
    /\ recleaned' = TRUE
    /\ pc' = "idle"
    /\ ret' = "none yet"
    /\ df' = NoFrame
    /\ steps' = <<>>
    /\ UNCHANGED <<cleanedFile, processedFile, resultsDir, cleaningReport,
                   transformationReport, db,
                   extractionReport, edaReport, dashboard, cwdRawFile>>

-----------------------------------------------------------------------------
(* data_transformation.main *)

FullyPaid == <<"F", "u", "l", "l", "y", " ", "P", "a", "i", "d">>
Current == <<"C", "u", "r", "r", "e", "n", "t">>
ChargedOff == <<"C", "h", "a", "r", "g", "e", "d", " ", "O", "f", "f">>

\* the new column alone keeps its cells
WithColumnOnly(d, c, cells) ==
    [cols |-> d.cols \cup {c},
     rows |-> [i \in 1..Len(d.rows) |->
                 [idx |-> d.rows[i].idx,
                  val |-> [x \in d.cols \cup {c} |-> IF x = c THEN cells[i] ELSE NaN]]]]

\* df[c] = cells, a column added or written over
WithColumn(d, c, cells) ==
    [cols |-> d.cols \cup {c},
     rows |-> [i \in 1..Len(d.rows) |->
                 [idx |-> d.rows[i].idx,
                  val |-> [x \in d.cols \cup {c} |->
                             IF x = c THEN cells[i] ELSE d.rows[i].val[x]]]]]

\* df[c] as the sequence of its cells
Column(d, c) == [i \in 1..Len(d.rows) |-> d.rows[i].val[c]]

\* the column holds text: read_csv made it an object column (as it makes every
\* column of a file without rows)
IsTextColumn(d, c) == d.rows = <<>> \/ \E i \in 1..Len(d.rows) : d.rows[i].val[c].k = "str"

HasText(d, c) == \E i \in 1..Len(d.rows) : d.rows[i].val[c].k = "str"

\* 1. isin(['Fully Paid', 'Current']).astype(int)
good_loans == {FullyPaid, Current}

IsGoodLoanStrict(cell) == IF cell.k = "str" /\ cell.s = FullyPaid THEN Num(1) ELSE Num(0)

IsGoodLoan(cell) == IF cell.k = "str" /\ cell.s \in good_loans THEN Num(1) ELSE Num(0)

\* 2. map(risk_map): a value that is no key of the dict gives NaN
RiskLow == <<"L", "o", "w">>
RiskMedium == <<"M", "e", "d", "i", "u", "m">>
RiskHigh == <<"H", "i", "g", "h">>

risk_map_shifted(g) ==
    CASE g \in {<<"A">>, <<"B">>, <<"C">>} -> Str(RiskLow)
      [] g \in {<<"D">>} -> Str(RiskMedium)
      [] g \in {<<"E">>, <<"F">>, <<"G">>} -> Str(RiskHigh)
      [] OTHER -> NaN

risk_map(g) ==
    CASE g \in {<<"A">>, <<"B">>} -> Str(RiskLow)
      [] g \in {<<"C">>, <<"D">>} -> Str(RiskMedium)
      [] g \in {<<"E">>, <<"F">>, <<"G">>} -> Str(RiskHigh)
      [] OTHER -> NaN

RiskCategory(cell) == IF cell.k = "str" THEN risk_map(cell.s) ELSE NaN

\* 3. annual_inc / loan_amnt as numpy divides floats; the amounts of the model
\*    divide its incomes, so the quotient is a whole number
Quotient(a, b) ==
    IF IsNull(a) \/ IsNull(b) THEN NaN
    ELSE IF a.k = "inf" THEN (IF b.k = "inf" THEN NaN ELSE Inf)
    ELSE IF b.k = "inf" THEN Num(0)
    ELSE IF b.n = 0 THEN (IF a.n = 0 THEN NaN ELSE Inf)
    ELSE Num(a.n \div b.n)

\* 4. str.extract('(\d+)'): the first run of digits, <<>> when there is none
RECURSIVE TakeDigits(_)
TakeDigits(t) ==
    IF t # <<>> /\ Head(t) \in DigitChars THEN <<Head(t)>> \o TakeDigits(Tail(t)) ELSE <<>>

RECURSIVE FirstDigits(_)
FirstDigits(t) ==
    IF t = <<>> THEN <<>>
    ELSE IF Head(t) \in DigitChars THEN TakeDigits(t)
    ELSE FirstDigits(Tail(t))

Contains(t, ch) == \E i \in 1..Len(t) : t[i] = ch

\* the digits alone, without the override of line 66
EmpYearsNoPlus(cell) ==
    IF cell.k = "str" /\ FirstDigits(cell.s) # <<>> THEN Num(NatOf(FirstDigits(cell.s)))
    ELSE Num(0)

\* lines 65-66: .fillna(0).astype(float), then 10 where the text contains "+"
EmpYears(cell) ==
    IF cell.k = "str" /\ Contains(cell.s, "+") THEN Num(10)
    ELSE IF cell.k = "str" /\ FirstDigits(cell.s) # <<>> THEN Num(NatOf(FirstDigits(cell.s)))
    ELSE Num(0)

\* 5. pd.cut(loan_amnt, bins, labels): bin i is (bins[i], bins[i+1]], closed on
\*    the right; the last bin runs to float('inf')
bins == <<0, 5000, 15000, 25000, 35000>>
labels == <<<<"V", "e", "r", "y", " ", "S", "m", "a", "l", "l">>, <<"S", "m", "a", "l", "l">>, <<"M", "e", "d", "i", "u", "m">>, <<"L", "a", "r", "g", "e">>, <<"V", "e", "r", "y", " ", "L", "a", "r", "g", "e">>>>

InBin(cell, i) ==
    IF cell.k = "inf" THEN i = Len(bins)
    ELSE /\ cell.k = "num"
         /\ bins[i] < cell.n
         /\ (i = Len(bins) \/ cell.n <= bins[i + 1])

LoanSizeCategory(cell) ==
    IF \E i \in 1..Len(bins) : InBin(cell, i)
    THEN Str(labels[CHOOSE i \in 1..Len(bins) : InBin(cell, i)])
    ELSE NaN

\* the five derivations, each behind the test of its source columns
AddIsGoodLoan(d) ==
    IF "loan_status" \in d.cols
    THEN WithColumn(d, "is_good_loan", [i \in 1..Len(d.rows) |-> IsGoodLoan(Column(d, "loan_status")[i])])
    ELSE d

AddRiskCategory(d) ==
    IF "grade" \in d.cols
    THEN WithColumn(d, "risk_category", [i \in 1..Len(d.rows) |-> RiskCategory(Column(d, "grade")[i])])
    ELSE d

IncomeRatioGateOnIncome(d) == "annual_inc" \in d.cols

IncomeRatioGate(d) == "annual_inc" \in d.cols /\ "loan_amnt" \in d.cols

AddIncomeLoanRatio(d) ==
    IF IncomeRatioGate(d)
    THEN WithColumn(d, "income_loan_ratio", [i \in 1..Len(d.rows) |->
                        Quotient(Column(d, "annual_inc")[i], Column(d, "loan_amnt")[i])])
    ELSE d

AddEmpYears(d) ==
    IF "emp_length" \in d.cols
    THEN WithColumn(d, "emp_years", [i \in 1..Len(d.rows) |-> EmpYears(Column(d, "emp_length")[i])])
    ELSE d

AddLoanSizeCategory(d) ==
    IF "loan_amnt" \in d.cols
    THEN WithColumn(d, "loan_size_category", [i \in 1..Len(d.rows) |-> LoanSizeCategory(Column(d, "loan_amnt")[i])])
    ELSE d

\* what makes a derivation raise: a column it reads is missing (never, behind
\* the gates as written), text is divided or cut, or .str is used on a column
\* that holds no text
TransformRaises(d) ==
    \/ IncomeRatioGate(d) /\ ~({"annual_inc", "loan_amnt"} \subseteq d.cols)
    \/ IncomeRatioGate(d) /\ (HasText(d, "annual_inc") \/ HasText(d, "loan_amnt"))
    \/ "emp_length" \in d.cols /\ ~IsTextColumn(d, "emp_length")
    \/ "loan_amnt" \in d.cols /\ HasText(d, "loan_amnt")

Transformed(d) ==
    AddLoanSizeCategory(AddEmpYears(AddIncomeLoanRatio(AddRiskCategory(AddIsGoodLoan(d)))))

\* new_features, in the order of the appends
NewFeatures(d) ==
    (IF "loan_status" \in d.cols THEN <<"is_good_loan">> ELSE <<>>)
    \o (IF "grade" \in d.cols THEN <<"risk_category">> ELSE <<>>)
    \o (IF IncomeRatioGate(d) THEN <<"income_loan_ratio">> ELSE <<>>)
    \o (IF "emp_length" \in d.cols THEN <<"emp_years">> ELSE <<>>)
    \o (IF "loan_amnt" \in d.cols THEN <<"loan_size_category">> ELSE <<>>)

\* main(): None when the cleaned file is missing or a step raises; the
\* processed file is written before the report, and open() raises when
\* results/ is missing
Transform ==
    /\ NoStageRunning
    /\ pc' = "transformed"
    /\ \/ /\ ~cleanedFile.exists
          /\ ret' = "None"
          /\ UNCHANGED <<processedFile, transformationReport>>
       \/ /\ cleanedFile.exists
          /\ ~CanReadCsv(cleanedFile) \/ TransformRaises(ReadCsv(cleanedFile))
          /\ ret' = "None"
          /\ UNCHANGED <<processedFile, transformationReport>>
       \/ /\ cleanedFile.exists
          /\ CanReadCsv(cleanedFile)
          /\ ~TransformRaises(ReadCsv(cleanedFile))
          /\ processedFile' = ToCsv(Transformed(ReadCsv(cleanedFile)))
          /\ \/ /\ resultsDir
                /\ transformationReport' = File({}, NewFeatures(ReadCsv(cleanedFile)))
                /\ ret' = "df"
             \/ /\ ~resultsDir
                /\ ret' = "None"
                /\ UNCHANGED transformationReport
    /\ df' = NoFrame
    /\ steps' = <<>>
    /\ UNCHANGED <<rawFile, cleanedFile, resultsDir, cleaningReport, db, recleaned,
                   extractionReport, edaReport, dashboard, cwdRawFile>>

-----------------------------------------------------------------------------
(* database_setup.setup_database *)

\* dropped: the rows of the table the last to_sql dropped
NoDb == [loans |-> NoFile, views |-> {}, replaced |-> FALSE, dropped |-> 0]

Views == {"loan_risk_analysis", "borrower_analysis"}

\* the table to_sql writes for the frame d: its columns and, index=False, the
\* values of its rows
TableOf(d) == File(d.cols, [i \in 1..Len(d.rows) |-> d.rows[i].val])

\* if_exists='append': the rows go after those the table has
ToSqlAppend(old, d) ==
    IF old.exists THEN File(d.cols, old.rows \o TableOf(d).rows) ELSE TableOf(d)

\* df.to_sql('loans', conn, if_exists='replace', index=False): a table of that
\* name is dropped and made again
ToSql(old, d) == TableOf(d)

\* None when the processed file is missing or cannot be read (the database is
\* opened after the read); else the table is replaced, the views are made if
\* they are not there, and the path is returned
SetupDatabase ==
    /\ NoStageRunning
    /\ pc' = "loaded"
    /\ \/ /\ ~processedFile.exists
          /\ ret' = "None"
          /\ UNCHANGED db
       \/ /\ processedFile.exists
          /\ ~CanReadCsv(processedFile)
          /\ ret' = "None"
          /\ UNCHANGED db
       \/ /\ processedFile.exists
          /\ CanReadCsv(processedFile)
          /\ db' = [loans |-> ToSql(db.loans, ReadCsv(processedFile)),
                    views |-> db.views \cup Views,
                    replaced |-> db.loans.exists,
                    dropped |-> Len(db.loans.rows)]
          /\ ret' = "db_path"
    /\ df' = NoFrame
    /\ steps' = <<>>
    /\ UNCHANGED <<rawFile, cleanedFile, processedFile, resultsDir, cleaningReport,
                   transformationReport, recleaned,
                   extractionReport, edaReport, dashboard, cwdRawFile>>

-----------------------------------------------------------------------------
(* dashboard.create_dashboard *)

\* dashboard/ before the first run: rendered and bars are what the last run
\* drew, charts and index what is on the disk
NoDashboard ==
    [dir |-> FALSE, charts |-> {}, index |-> <<>>, rendered |-> {}, bars |-> <<>>]

\* the chart files, in the order they are drawn and listed
ChartNames ==
    <<"loan_status_distribution", "loan_amount_by_risk", "interest_rate_by_grade",
      "good_loan_rate_by_risk", "loan_purpose_distribution",
      "annual_income_distribution", "key_metrics_summary">>

\* the values of a column that are not missing
NonNull(d, c) == {d.rows[i].val[c] : i \in 1..Len(d.rows)} \ {NaN}

CountOf(d, c, v) == Cardinality({i \in 1..Len(d.rows) : d.rows[i].val[c] = v})

FirstAt(d, c, v) == CHOOSE i \in 1..Len(d.rows) :
    d.rows[i].val[c] = v /\ \A j \in 1..(i - 1) : d.rows[j].val[c] # v

\* df[c].value_counts(): the values that occur with their counts, the most
\* frequent first (of two equally frequent ones the one met first), missing
\* values left out
RECURSIVE ValueCountsOver(_, _, _)
ValueCountsOver(d, c, V) ==
    IF V = {} THEN <<>>
    ELSE LET top == CHOOSE v \in V : \A w \in V \ {v} :
                        \/ CountOf(d, c, v) > CountOf(d, c, w)
                        \/ CountOf(d, c, v) = CountOf(d, c, w) /\ FirstAt(d, c, v) < FirstAt(d, c, w)
         IN <<[value |-> top, count |-> CountOf(d, c, top)]>>
            \o ValueCountsOver(d, c, V \ {top})

ValueCounts(d, c) == ValueCountsOver(d, c, NonNull(d, c))

\* line 39: the labels of the two bars, whatever the counts are counts of
BarLabels == <<"Bad Loans (0)", "Good Loans (1)">>

\* plt.bar(labels, status_counts.values): the i-th label gets the i-th count;
\* one count alone is broadcast to both bars
StatusBars(d) ==
    LET vc == ValueCounts(d, "is_good_loan")
    IN [i \in 1..2 |-> [label |-> BarLabels[i],
                        height |-> vc[IF Len(vc) = 1 THEN 1 ELSE i].count]]

\* the column tests in front of the charts; the seventh chart has none
ChartGate(d, k) ==
    CASE k = 1 -> "is_good_loan" \in d.cols
      [] k = 2 -> "risk_category" \in d.cols /\ "loan_amnt" \in d.cols
      [] k = 3 -> "grade" \in d.cols /\ "int_rate" \in d.cols
      [] k = 4 -> "risk_category" \in d.cols /\ "is_good_loan" \in d.cols
      [] k = 5 -> "purpose" \in d.cols
      [] k = 6 -> "annual_inc" \in d.cols
      [] k = 7 -> TRUE

\* the columns a chart draws
ChartColumns(k) ==
    CASE k = 1 -> {"is_good_loan"}
      [] k = 2 -> {"risk_category", "loan_amnt"}
      [] k = 3 -> {"grade", "int_rate"}
      [] k = 4 -> {"risk_category", "is_good_loan"}
      [] k = 5 -> {"purpose"}
      [] k = 6 -> {"annual_inc"}
      [] k = 7 -> {"is_good_loan", "loan_amnt", "int_rate", "annual_inc", "dti"}

\* drawing chart k raises: two labels against no count or more than two
\* (line 39), sorted() over texts and a missing value (line 59), a quantile or
\* a mean of texts (lines 136, 155-171)
ChartRaises(d, k) ==
    CASE k = 1 -> Len(ValueCounts(d, "is_good_loan")) \notin {1, 2}
      [] k = 2 -> /\ Str(<<"L", "o", "w">>) \notin NonNull(d, "risk_category")
                  /\ NonNull(d, "risk_category") # {}
                  /\ \E i \in 1..Len(d.rows) : IsNull(d.rows[i].val["risk_category"])
      [] k = 6 -> HasText(d, "annual_inc")
      [] k = 7 -> \E c \in ChartColumns(7) \cap d.cols : HasText(d, c)
      [] OTHER -> FALSE

\* a chart of a column without a single value: whether the plotting library
\* draws an empty chart or raises is not fixed by the script
ChartMayRaise(d, k) == k \in 2..6 /\ \E c \in ChartColumns(k) : NonNull(d, c) = {}

\* the run can end at chart k (k <= 7: that chart raises; 8: the index is
\* written): no chart before it raises for certain
CanStopAt(d, k) ==
    /\ \A j \in 1..(k - 1) : ChartGate(d, j) => ~ChartRaises(d, j)
    /\ k <= 7 => ChartGate(d, k) /\ (ChartRaises(d, k) \/ ChartMayRaise(d, k))

\* the charts saved before the run ended at k
Rendered(d, k) == {ChartNames[j] : j \in {j \in 1..7 : j < k /\ ChartGate(d, j)}}

\* lines 12-226: dashboard/ is made, then None when the processed file is
\* missing; a raise ends the run with False and without the index; else every
\* gated chart is saved and the index written with its seven fixed lines
Dashboard ==
    /\ NoStageRunning
    /\ pc' = "dashboard"
    /\ \/ /\ ~processedFile.exists
          /\ ret' = "None"
          /\ dashboard' = [dashboard EXCEPT !.dir = TRUE, !.rendered = {}, !.bars = <<>>]
       \/ /\ processedFile.exists
          /\ ~CanReadCsv(processedFile)
          /\ ret' = "False"
          /\ dashboard' = [dashboard EXCEPT !.dir = TRUE, !.rendered = {}, !.bars = <<>>]
       \/ /\ processedFile.exists
          /\ CanReadCsv(processedFile)
          /\ \E k \in 1..8 :
                LET d == ReadCsv(processedFile) IN
                /\ CanStopAt(d, k)
                /\ ret' = IF k = 8 THEN "True" ELSE "False"
                /\ dashboard' =
                     [dir |-> TRUE,
                      charts |-> dashboard.charts \cup Rendered(d, k),
                      index |-> IF k = 8 THEN ChartNames ELSE dashboard.index,
                      rendered |-> Rendered(d, k),
                      bars |-> IF ChartNames[1] \in Rendered(d, k) THEN StatusBars(d) ELSE <<>>]
    /\ df' = NoFrame
    /\ steps' = <<>>
    /\ UNCHANGED <<rawFile, cleanedFile, processedFile, resultsDir, cleaningReport,
                   transformationReport, db, recleaned, extractionReport, edaReport,
                   cwdRawFile>>

-----------------------------------------------------------------------------
(* exploratory_analysis.perform_eda *)

\* a line of the analysis raises: the share of good loans of no rows (line
\* 31), or the mean of a text column (lines 36, 42)
EdaRaises(d) ==
    \/ "is_good_loan" \in d.cols /\ d.rows = <<>>
    \/ \E c \in {"loan_amnt", "int_rate"} \cap d.cols : HasText(d, c)

\* lines 12-73: None when the processed file is missing or a line raises; the
\* report is opened under results/, which this stage does not make
Eda ==
    /\ NoStageRunning
    /\ pc' = "eda"
    /\ \/ /\ ~processedFile.exists
          /\ ret' = "None"
          /\ UNCHANGED edaReport
       \/ /\ processedFile.exists
          /\ \/ ~CanReadCsv(processedFile)
             \/ EdaRaises(ReadCsv(processedFile))
             \/ ~resultsDir
          /\ ret' = "None"
          /\ UNCHANGED edaReport
       \/ /\ processedFile.exists
          /\ CanReadCsv(processedFile)
          /\ ~EdaRaises(ReadCsv(processedFile))
          /\ resultsDir
          /\ edaReport' = TRUE
          /\ ret' = "df"
    /\ df' = NoFrame
    /\ steps' = <<>>
    /\ UNCHANGED <<rawFile, cleanedFile, processedFile, resultsDir, cleaningReport,
                   transformationReport, db, recleaned, extractionReport, dashboard,
                   cwdRawFile>>

-----------------------------------------------------------------------------
(* data_acquisition.download_lending_club_data *)

\* the working directories the script is started from
WorkingDirs == {"project_root", "scripts"}

\* lines 12-58: None when the download or the load fails; else the table is
\* written to data/raw/lending_club_raw.csv under the working directory
\* (Path("data/raw") is relative), and returned
Acquisition(cwd, download) ==
    /\ NoStageRunning
    /\ pc' = "acquired"
    /\ \/ /\ ~(download.exists /\ CanReadCsv(download))
          /\ ret' = "None"
          /\ UNCHANGED <<rawFile, cwdRawFile>>
       \/ /\ download.exists
          /\ CanReadCsv(download)
          /\ ret' = "df"
          /\ IF cwd = "project_root"
             THEN rawFile' = ToCsv(ReadCsv(download)) /\ UNCHANGED cwdRawFile
             ELSE cwdRawFile' = ToCsv(ReadCsv(download)) /\ UNCHANGED rawFile
    /\ df' = NoFrame
    /\ steps' = <<>>
    /\ UNCHANGED <<cleanedFile, processedFile, resultsDir, cleaningReport,
                   transformationReport, db, recleaned, extractionReport, edaReport,
                   dashboard>>

-----------------------------------------------------------------------------
(* Raw files of the cleaning specification: two blocks of repeated records *)

GradeTexts == {<<>>, <<"A">>}
IntRateTexts == {<<>>, <<"1", "3", "%">>, <<"1", "3">>, <<"n", "a", "n", "%">>, <<"%">>}
RevolUtilTexts == {<<>>, <<"5", "%">>}

ColumnTexts(c) ==
    CASE c = "grade" -> GradeTexts
      [] c = "int_rate" -> IntRateTexts
      [] c = "revol_util" -> RevolUtilTexts

RawColumnSets ==
    {{"grade", "int_rate", "revol_util"}, {"grade", "int_rate"}, {"grade", "revol_util"}}

Records(cols) == {r \in [cols -> UNION {ColumnTexts(c) : c \in cols}] :
                    \A c \in cols : r[c] \in ColumnTexts(c)}

Repeat(r, m) == [i \in 1..m |-> r]

\* the files over the columns cs: m1 copies of one record, then m2 of another
RawFilesOver(cs) ==
    UNION {{File(cs, Repeat(r1, m1) \o Repeat(r2, m2)) :
                r1 \in Records(cs), r2 \in Records(cs), m2 \in 0..(MaxRows - m1)} :
           m1 \in 0..MaxRows}

RawFiles == UNION {RawFilesOver(cs) : cs \in RawColumnSets}

InitClean ==
    /\ rawFile \in RawFiles \cup {NoFile}
    /\ cleanedFile = NoFile
    /\ processedFile = NoFile
    /\ resultsDir = FALSE
    /\ cleaningReport = NoFile
    /\ transformationReport = NoFile
    /\ db = NoDb
    /\ pc = "idle"
    /\ df = NoFrame
    /\ steps = <<>>
    /\ ret = "none yet"
    /\ recleaned = FALSE
    /\ extractionReport = FALSE
    /\ edaReport = FALSE
    /\ dashboard = NoDashboard
    /\ cwdRawFile = NoFile

NextClean ==
    \/ CleanStart
    \/ CleanEmptyCols
    \/ CleanHighMissing
    \/ CleanDuplicates
    \/ CleanKeys
    \/ CleanPercent
    \/ CleanSave
    \/ Extraction
    \/ ReuseCleanedAsRaw

SpecClean == InitClean /\ [][NextClean]_vars

-----------------------------------------------------------------------------
(* Cleaned files of the transformation specification: rows drawn from sample
   records; sample k takes, in each column, the k-th value of the column's
   list, going round the list *)

\* the number of sample records
Samples == 9

LoanStatusList == <<FullyPaid, Current, ChargedOff, <<>>>>
GradeList == <<<<"A">>, <<"B">>, <<"C">>, <<"D">>, <<"E">>, <<"F">>, <<"G">>, <<"H">>, <<>>>>
LoanAmntList == <<<<"2", "0", "0", "0", "0">>, <<"0">>, <<"3", "0", "0", "0">>, <<"5", "0", "0", "0">>, <<"1", "5", "0", "0", "0">>, <<"2", "5", "0", "0", "0">>, <<"3", "5", "0", "0", "0">>, <<"4", "0", "0", "0", "0">>, <<>>>>
EmpLengthList == <<<<"3", " ", "y", "e", "a", "r", "s">>, <<"1", "0", "+", " ", "y", "e", "a", "r", "s">>, <<"<", " ", "1", " ", "y", "e", "a", "r">>, <<"2", "+", " ", "y", "e", "a", "r", "s">>, <<"5">>, <<"s", "e", "l", "f">>, <<"n", "/", "a">>, <<>>>>
AnnualIncList == <<<<"4", "2", "0", "0", "0", "0", "0">>, <<"0">>, <<>>>>
PurposeList == <<<<"c", "a", "r">>, <<>>>>

ValueList(c) ==
    CASE c = "loan_status" -> LoanStatusList
      [] c = "grade" -> GradeList
      [] c = "loan_amnt" -> LoanAmntList
      [] c = "emp_length" -> EmpLengthList
      [] c = "annual_inc" -> AnnualIncList
      [] c = "purpose" -> PurposeList

SourceCols == {"loan_status", "grade", "loan_amnt", "emp_length", "annual_inc"}

AllCols == SourceCols \cup {"purpose"}

Sample(cols, k) == [c \in cols |-> ValueList(c)[((k - 1) % Len(ValueList(c))) + 1]]

\* every column, every column but one source, neither source of the ratio,
\* and no source at all
CleanedColumnSets ==
    {AllCols} \cup {AllCols \ {c} : c \in SourceCols}
        \cup {AllCols \ {"annual_inc", "loan_amnt"}, {"purpose"}}

RECURSIVE SampleRows(_, _)
SampleRows(cols, n) ==
    IF n = 0 THEN {<<>>}
    ELSE {Append(rows, Sample(cols, k)) : rows \in SampleRows(cols, n - 1), k \in 1..Samples}

CleanedFiles ==
    UNION {{File(cn[1], rows) : rows \in SampleRows(cn[1], cn[2])} :
           cn \in CleanedColumnSets \X (1..MaxRowsT)}

InitTransform ==
    /\ rawFile = NoFile
    /\ cleanedFile \in CleanedFiles \cup {NoFile, File({}, <<>>)}
    /\ processedFile = NoFile
    /\ resultsDir = FALSE
    /\ cleaningReport = NoFile
    /\ transformationReport = NoFile
    /\ db = NoDb
    /\ pc = "idle"
    /\ df = NoFrame
    /\ steps = <<>>
    /\ ret = "none yet"
    /\ recleaned = FALSE
    /\ extractionReport = FALSE
    /\ edaReport = FALSE
    /\ dashboard = NoDashboard
    /\ cwdRawFile = NoFile

NextTransform ==
    \/ Transform
    \/ Extraction

SpecTransform == InitTransform /\ [][NextTransform]_vars

-----------------------------------------------------------------------------
(* Processed files of the loading specification: what the transformation
   writes for the first sample records, and a file cut off before its header *)

\* the number of sample records the processed files are made of
SamplesD == 3

RECURSIVE SampleRowsD(_)
SampleRowsD(n) ==
    IF n = 0 THEN {<<>>}
    ELSE {Append(rows, Sample(AllCols, k)) : rows \in SampleRowsD(n - 1), k \in 1..SamplesD}

ProcessedFiles ==
    {ToCsv(Transformed(ReadCsv(File(AllCols, rows)))) :
        rows \in UNION {SampleRowsD(n) : n \in 0..MaxRowsD}}
    \cup {File({}, <<>>)}

\* data_transformation.main has run again and written another processed file
ProcessedReplaced ==
    /\ NoStageRunning
    /\ processedFile' \in ProcessedFiles \ {processedFile}
    /\ pc' = "transformed"
    /\ ret' = "df"
    /\ UNCHANGED <<rawFile, cleanedFile, resultsDir, cleaningReport,
                   transformationReport, db, df, steps, recleaned,
                   extractionReport, edaReport, dashboard, cwdRawFile>>

InitDb ==
    /\ rawFile = NoFile
    /\ cleanedFile = NoFile
    /\ processedFile \in ProcessedFiles \cup {NoFile}
    /\ resultsDir = TRUE
    /\ cleaningReport = NoFile
    /\ transformationReport = NoFile
    /\ db = NoDb
    /\ pc = "idle"
    /\ df = NoFrame
    /\ steps = <<>>
    /\ ret = "none yet"
    /\ recleaned = FALSE
    /\ extractionReport = FALSE
    /\ edaReport = FALSE
    /\ dashboard = NoDashboard
    /\ cwdRawFile = NoFile

NextDb ==
    \/ SetupDatabase
    \/ ProcessedReplaced

SpecDb == InitDb /\ [][NextDb]_vars

-----------------------------------------------------------------------------
(* Processed files of the dashboard specification: the columns the charts
   draw, with the values the transformation writes in them *)

\* most rows of a processed file given to the dashboard
MaxRowsB == 3

DashTexts(c) ==
    CASE c = "is_good_loan" -> {<<"1">>, <<"0">>}
      [] c = "risk_category" -> {RiskLow, RiskHigh, <<>>}
      [] c = "loan_amnt" -> {<<"5", "0", "0", "0">>}
      [] c = "grade" -> {<<"A">>, <<>>}
      [] c = "int_rate" -> {<<"1", "3">>}
      [] c = "purpose" -> {<<"c", "a", "r">>, <<>>}
      [] c = "annual_inc" -> {<<"4", "2", "0", "0", "0">>}

DashColumnSets ==
    {{"is_good_loan"}, {"is_good_loan", "risk_category", "loan_amnt"},
     {"grade", "int_rate", "purpose", "annual_inc"}}

DashRecords(cols) == {r \in [cols -> UNION {DashTexts(c) : c \in cols}] :
                        \A c \in cols : r[c] \in DashTexts(c)}

DashFiles ==
    UNION {{File(cs, rows) : rows \in UNION {[1..n -> DashRecords(cs)] : n \in 0..MaxRowsB}} :
           cs \in DashColumnSets}

InitDashboard ==
    /\ rawFile = NoFile
    /\ cleanedFile = NoFile
    /\ processedFile \in DashFiles \cup {NoFile, File({}, <<>>)}
    /\ resultsDir \in BOOLEAN
    /\ cleaningReport = NoFile
    /\ transformationReport = NoFile
    /\ db = NoDb
    /\ pc = "idle"
    /\ df = NoFrame
    /\ steps = <<>>
    /\ ret = "none yet"
    /\ recleaned = FALSE
    /\ extractionReport = FALSE
    /\ edaReport = FALSE
    /\ dashboard = NoDashboard
    /\ cwdRawFile = NoFile

NextDashboard ==
    \/ Dashboard
    \/ Eda

SpecDashboard == InitDashboard /\ [][NextDashboard]_vars

-----------------------------------------------------------------------------
(* The whole pipeline, from an empty project: the stages run one after
   another in any order, each from the files the earlier ones left *)

\* what the download brings: nothing (it failed), or a table
StageDownloads ==
    {NoFile,
     File({"grade", "int_rate"},
          <<[grade |-> <<"A">>, int_rate |-> <<"1", "3", "%">>]>>),
     File({"grade", "int_rate"},
          <<[grade |-> <<"A">>, int_rate |-> <<"1", "3", "%">>],
            [grade |-> <<>>, int_rate |-> <<"1", "3", "%">>]>>),
     File({"grade", "int_rate"},
          <<[grade |-> <<"A">>, int_rate |-> <<"%">>]>>)}

InitStages ==
    /\ rawFile = NoFile
    /\ cleanedFile = NoFile
    /\ processedFile = NoFile
    /\ resultsDir = FALSE
    /\ cleaningReport = NoFile
    /\ transformationReport = NoFile
    /\ db = NoDb
    /\ pc = "idle"
    /\ df = NoFrame
    /\ steps = <<>>
    /\ ret = "none yet"
    /\ recleaned = FALSE
    /\ extractionReport = FALSE
    /\ edaReport = FALSE
    /\ dashboard = NoDashboard
    /\ cwdRawFile = NoFile

NextStages ==
    \/ \E cwd \in WorkingDirs, download \in StageDownloads : Acquisition(cwd, download)
    \/ CleanStart
    \/ CleanEmptyCols
    \/ CleanHighMissing
    \/ CleanDuplicates
    \/ CleanKeys
    \/ CleanPercent
    \/ CleanSave
    \/ Extraction
    \/ Transform
    \/ SetupDatabase
    \/ Dashboard
    \/ Eda

SpecStages == InitStages /\ [][NextStages]_vars

-----------------------------------------------------------------------------
(* The cleaning stage's claims, under SpecClean *)

CleaningSucceeded == pc = "done" /\ ret = "df"

PctColSet == {PctCols[i] : i \in 1..Len(PctCols)}

\* the raw file as the run loaded it
RawFrame == ReadCsv(rawFile)

\* C1: cleaning run again on its own cleaned output removes no further row
\* and no further column: the second output has the rows and columns of the
\* first.
C1_CleaningIdempotent ==
    (CleaningSucceeded /\ recleaned) =>
        /\ cleanedFile.cols = rawFile.cols
        /\ cleanedFile.rows = rawFile.rows

\* C2: after a successful cleaning run every row of the cleaned file has a
\* value in each key column the cleaned file has.
C2_KeyColumnsNonNull ==
    CleaningSucceeded =>
        \A i \in 1..Len(cleanedFile.rows) :
            \A c \in KeyColSet \cap cleanedFile.cols :
                cleanedFile.rows[i][c] \notin NaTexts

\* every row of the frame d is the raw row of its index, with the raw values in
\* the columns d still has (the percent columns apart), in the raw order
RowsAreRawRows(d) ==
    /\ \A i \in 1..Len(d.rows) :
          /\ d.rows[i].idx \in 0..(Len(rawFile.rows) - 1)
          /\ \A c \in d.cols \ PctColSet :
                d.rows[i].val[c] = RawFrame.rows[d.rows[i].idx + 1].val[c]
    /\ \A i, j \in 1..Len(d.rows) : i < j => d.rows[i].idx < d.rows[j].idx

\* C3: after every cleaning step the rows are raw rows and the columns are raw
\* columns, so the cleaned file has at most the rows and columns of the raw file.
C3_CleaningOnlyRemoves ==
    /\ (pc \notin {"idle", "done"} \/ CleaningSucceeded) =>
          /\ df.cols \subseteq rawFile.cols
          /\ RowsAreRawRows(df)
          /\ Len(df.rows) <= Len(rawFile.rows)
    /\ CleaningSucceeded =>
          /\ cleanedFile.cols \subseteq rawFile.cols
          /\ Len(cleanedFile.rows) <= Len(rawFile.rows)
          /\ Len(cleanedFile.rows) = Len(df.rows)

\* a run that dropped a column in step 1 or 2 and rows in steps 3 and 4
C3_Witness ==
    /\ CleaningSucceeded
    /\ cleanedFile.cols # rawFile.cols
    /\ Len(cleanedFile.rows) > 0
    /\ Len(cleanedFile.rows) + 2 <= Len(rawFile.rows)
    /\ \E i \in 1..Len(cleaningReport.rows) : cleaningReport.rows[i].what = "high_missing"
    /\ \E i \in 1..Len(cleaningReport.rows) : cleaningReport.rows[i].what = "missing"

\* the raw text t is the numeral of n followed by percent signs only
IsPercentOf(t, n) ==
    \E k \in 0..Len(t) :
        /\ SubSeq(t, 1, Len(t) - k) = ToDigits(n)
        /\ \A j \in (Len(t) - k + 1)..Len(t) : t[j] = "%"

IsPercentText(t) ==
    \E k \in 0..Len(t) :
        /\ IsDigits(SubSeq(t, 1, Len(t) - k))
        /\ \A j \in (Len(t) - k + 1)..Len(t) : t[j] = "%"

\* C8: in every row cleaning keeps, int_rate and revol_util hold the number
\* their raw text spells before its trailing percent signs; a raw number keeps
\* its value and a missing revol_util stays missing.  The cleaned file holds
\* that number's numeral.
C8_PercentConversion ==
    CleaningSucceeded =>
        \A i \in 1..Len(df.rows) : \A c \in PctColSet \cap df.cols :
            LET t == rawFile.rows[df.rows[i].idx + 1][c]
                v == df.rows[i].val[c]
            IN  /\ t \in NaTexts => IsNull(v) /\ cleanedFile.rows[i][c] = <<>>
                /\ IsPercentText(t) =>
                      /\ v.k = "num"
                      /\ IsPercentOf(t, v.n)
                      /\ cleanedFile.rows[i][c] = ToDigits(v.n)

\* a kept row whose int_rate was a percent text and whose revol_util was missing
C8_Witness ==
    /\ CleaningSucceeded
    /\ \E i \in 1..Len(df.rows) :
          /\ {"int_rate", "revol_util"} \subseteq df.cols
          /\ rawFile.rows[df.rows[i].idx + 1]["int_rate"] = <<"1", "3", "%">>
          /\ df.rows[i].val["int_rate"] = Num(13)
          /\ rawFile.rows[df.rows[i].idx + 1]["revol_util"] = <<>>
    /\ \E i \in 1..Len(df.rows) :
          /\ rawFile.rows[df.rows[i].idx + 1]["int_rate"] = <<"1", "3">>

-----------------------------------------------------------------------------
(* The transformation stage's claims, under SpecTransform *)

\* the run that just ended wrote the processed file from the cleaned file
TransformWrote ==
    /\ pc = "transformed"
    /\ processedFile.exists
    /\ Len(processedFile.rows) = Len(cleanedFile.rows)

\* C4: in every row of the processed file is_good_loan is 1 when loan_status
\* is "Fully Paid" or "Current" and 0 for any other or a missing status.
C4_IsGoodLoan ==
    (pc = "transformed" /\ processedFile.exists /\ "loan_status" \in cleanedFile.cols) =>
        /\ TransformWrote
        /\ "is_good_loan" \in processedFile.cols
        /\ \A i \in 1..Len(processedFile.rows) :
              processedFile.rows[i]["is_good_loan"] =
                  IF cleanedFile.rows[i]["loan_status"] \in {FullyPaid, Current}
                  THEN <<"1">> ELSE <<"0">>

\* a good loan, and a loan without a status, which counts as bad
C4_Witness ==
    /\ TransformWrote
    /\ "loan_status" \in cleanedFile.cols
    /\ \E i \in 1..Len(processedFile.rows) :
          cleanedFile.rows[i]["loan_status"] = Current
          /\ processedFile.rows[i]["is_good_loan"] = <<"1">>
    /\ \E i \in 1..Len(processedFile.rows) :
          cleanedFile.rows[i]["loan_status"] = <<>>
          /\ processedFile.rows[i]["is_good_loan"] = <<"0">>

\* C5: risk_category is Low for grades A and B, Medium for C and D, High for
\* E, F and G, and missing for any other or a missing grade.
C5_RiskCategory ==
    (pc = "transformed" /\ processedFile.exists /\ "grade" \in cleanedFile.cols) =>
        /\ TransformWrote
        /\ "risk_category" \in processedFile.cols
        /\ \A i \in 1..Len(processedFile.rows) :
              LET g == cleanedFile.rows[i]["grade"]
                  r == processedFile.rows[i]["risk_category"]
              IN  /\ g \in {<<"A">>, <<"B">>} => r = <<"L", "o", "w">>
                  /\ g \in {<<"C">>, <<"D">>} => r = <<"M", "e", "d", "i", "u", "m">>
                  /\ g \in {<<"E">>, <<"F">>, <<"G">>} => r = <<"H", "i", "g", "h">>
                  /\ g \notin {<<"A">>, <<"B">>, <<"C">>, <<"D">>, <<"E">>, <<"F">>, <<"G">>} => r = <<>>

\* a grade D row and a row whose grade is not one of A..G
C5_Witness ==
    /\ TransformWrote
    /\ "grade" \in cleanedFile.cols
    /\ \E i \in 1..Len(processedFile.rows) :
          cleanedFile.rows[i]["grade"] = <<"D">>
          /\ processedFile.rows[i]["risk_category"] = <<"M", "e", "d", "i", "u", "m">>
    /\ \E i \in 1..Len(processedFile.rows) :
          cleanedFile.rows[i]["grade"] = <<"H">>
          /\ processedFile.rows[i]["risk_category"] = <<>>

\* the category the claim gives an amount: lower bound in, upper bound out
ClaimedSize(n) ==
    IF n < 5000 THEN <<"V", "e", "r", "y", " ", "S", "m", "a", "l", "l">>
    ELSE IF n < 15000 THEN <<"S", "m", "a", "l", "l">>
    ELSE IF n < 25000 THEN <<"M", "e", "d", "i", "u", "m">>
    ELSE IF n < 35000 THEN <<"L", "a", "r", "g", "e">>
    ELSE <<"V", "e", "r", "y", " ", "L", "a", "r", "g", "e">>

\* C6: every row with a loan_amnt has the loan_size_category of the half-open
\* interval [lower, upper) its amount lies in, 0 and the bounds 5000, 15000,
\* 25000, 35000 included.
C6_LoanSizeCategory ==
    (pc = "transformed" /\ processedFile.exists /\ "loan_amnt" \in cleanedFile.cols) =>
        /\ TransformWrote
        /\ \A i \in 1..Len(processedFile.rows) :
              cleanedFile.rows[i]["loan_amnt"] \notin NaTexts =>
                  processedFile.rows[i]["loan_size_category"] =
                      ClaimedSize(NatOf(cleanedFile.rows[i]["loan_amnt"]))

\* the text t[a..b] is the first run of digits of t
IsFirstDigitRun(t, a, b) ==
    /\ a <= b
    /\ \A j \in 1..(a - 1) : t[j] \notin DigitChars
    /\ \A j \in a..b : t[j] \in DigitChars
    /\ b = Len(t) \/ t[b + 1] \notin DigitChars

\* C7: emp_years is 10 when emp_length contains "+", else the number its
\* first run of digits spells, and 0 when emp_length is missing or has no digit.
C7_EmpYears ==
    (pc = "transformed" /\ processedFile.exists /\ "emp_length" \in cleanedFile.cols) =>
        /\ TransformWrote
        /\ "emp_years" \in processedFile.cols
        /\ \A i \in 1..Len(processedFile.rows) :
              LET t == cleanedFile.rows[i]["emp_length"]
                  y == processedFile.rows[i]["emp_years"]
              IN  IF t \in NaTexts THEN y = <<"0">>
                  ELSE IF \E j \in 1..Len(t) : t[j] = "+" THEN y = <<"1", "0">>
                  ELSE IF \E j \in 1..Len(t) : t[j] \in DigitChars
                       THEN \E a, b \in 1..Len(t) :
                               IsFirstDigitRun(t, a, b) /\ y = SubSeq(t, a, b)
                  ELSE y = <<"0">>

\* "2+ years" gives 10, and "n/a", which is read as missing, gives 0
C7_Witness ==
    /\ TransformWrote
    /\ "emp_length" \in cleanedFile.cols
    /\ \E i \in 1..Len(processedFile.rows) :
          cleanedFile.rows[i]["emp_length"] = <<"2", "+", " ", "y", "e", "a", "r", "s">>
          /\ processedFile.rows[i]["emp_years"] = <<"1", "0">>
    /\ \E i \in 1..Len(processedFile.rows) :
          cleanedFile.rows[i]["emp_length"] \in {<<"n", "/", "a">>, <<"<", " ", "1", " ", "y", "e", "a", "r">>}
          /\ processedFile.rows[i]["emp_years"] \in {<<"0">>, <<"1">>}

DerivedCols ==
    {"is_good_loan", "risk_category", "income_loan_ratio", "emp_years", "loan_size_category"}

SourcesOf(c) ==
    CASE c = "is_good_loan" -> {"loan_status"}
      [] c = "risk_category" -> {"grade"}
      [] c = "income_loan_ratio" -> {"annual_inc", "loan_amnt"}
      [] c = "emp_years" -> {"emp_length"}
      [] c = "loan_size_category" -> {"loan_amnt"}

\* the cleaned file can be read, and emp_length, when it is there, holds a text
\* (the one column of the model whose values can stop a derivation)
CleanedWellTyped ==
    /\ cleanedFile.exists
    /\ cleanedFile.cols # {}
    /\ "emp_length" \in cleanedFile.cols =>
          \E i \in 1..Len(cleanedFile.rows) :
              /\ cleanedFile.rows[i]["emp_length"] \notin NaTexts
              /\ ~IsDigits(cleanedFile.rows[i]["emp_length"])

\* C9: a derived column is in the processed file exactly when all its source
\* columns are in the cleaned file, and the processed file has every cleaned
\* column; an absent source column stops nothing: whichever source columns are
\* absent, a readable cleaned file is transformed and written, and the frame is
\* returned when the report can be written.
C9_TransformationGating ==
    pc = "transformed" =>
        /\ processedFile.exists =>
              /\ cleanedFile.cols \subseteq processedFile.cols
              /\ \A c \in DerivedCols :
                    c \in processedFile.cols <=> SourcesOf(c) \subseteq cleanedFile.cols
        /\ CleanedWellTyped =>
              /\ processedFile.exists
              /\ resultsDir => ret = "df" /\ transformationReport.exists

\* loan_amnt is absent and annual_inc is there: neither the ratio nor the size
\* category is added, the other three are
C9_Witness ==
    /\ pc = "transformed"
    /\ ret = "df"
    /\ cleanedFile.cols = AllCols \ {"loan_amnt"}
    /\ processedFile.cols =
          cleanedFile.cols \cup {"is_good_loan", "risk_category", "emp_years"}

-----------------------------------------------------------------------------
(* The loading stage's claim, under SpecDb *)

\* C10: after a successful setup_database run the loans table holds exactly
\* the rows of the processed file the run read, whatever the table held
\* before, and both views exist.
C10_FullOverwrite ==
    (pc = "loaded" /\ ret = "db_path") =>
        /\ db.loans.exists
        /\ db.loans.cols = processedFile.cols
        /\ Len(db.loans.rows) = Len(processedFile.rows)
        /\ \A i \in 1..Len(db.loans.rows) : \A c \in db.loans.cols :
              IF processedFile.rows[i][c] \in NaTexts
              THEN IsNull(db.loans.rows[i][c])
              ELSE CellText(db.loans.rows[i][c]) = processedFile.rows[i][c]
        /\ Views \subseteq db.views

\* a load over a table that an earlier load left with two rows
C10_Witness ==
    /\ pc = "loaded"
    /\ ret = "db_path"
    /\ db.replaced
    /\ db.dropped = 2
    /\ Len(db.loans.rows) = 1
    /\ Len(processedFile.rows) = 1

-----------------------------------------------------------------------------
(* The claims about the stages together, under SpecStages *)

\* the data artifacts of the project; the directories are not among them
Artifacts ==
    <<rawFile, cwdRawFile, cleanedFile, processedFile, cleaningReport,
      transformationReport, extractionReport, edaReport, db, dashboard.charts,
      dashboard.index>>

\* C11: a stage started when its input file is missing returns None and
\* leaves every data artifact as it was (raw file for cleaning and extraction,
\* cleaned file for transformation, processed file for database setup,
\* dashboard and EDA); so an output is written only in a state where the input
\* of its stage exists.
C11_MissingInput ==
    [][/\ (NoStageRunning /\ pc' \in {"done", "empty_cols", "extracted"} /\ ~rawFile.exists) =>
              (ret' = "None" /\ Artifacts' = Artifacts)
       /\ (NoStageRunning /\ pc' = "transformed" /\ ~cleanedFile.exists) =>
              (ret' = "None" /\ Artifacts' = Artifacts)
       /\ (NoStageRunning /\ pc' \in {"loaded", "dashboard", "eda"} /\ ~processedFile.exists) =>
              (ret' = "None" /\ Artifacts' = Artifacts)
       /\ (cleanedFile' # cleanedFile \/ cleaningReport' # cleaningReport
              \/ extractionReport' # extractionReport) => rawFile.exists
       /\ (processedFile' # processedFile \/ transformationReport' # transformationReport) =>
              cleanedFile.exists
       /\ (db' # db \/ edaReport' # edaReport \/ dashboard.charts' # dashboard.charts
              \/ dashboard.index' # dashboard.index) => processedFile.exists
      ]_vars

\* the database stage has returned None for want of the processed file, in a
\* project where the raw and the cleaned file are there and results/ is made
C11_Witness ==
    /\ pc = "loaded"
    /\ ret = "None"
    /\ ~processedFile.exists
    /\ rawFile.exists
    /\ cleanedFile.exists
    /\ resultsDir
    /\ db = NoDb

\* every int_rate and revol_util text of the raw file is empty or a numeral
\* with percent signs after it
RawWellFormed ==
    /\ rawFile.exists
    /\ rawFile.cols # {}
    /\ \A i \in 1..Len(rawFile.rows) : \A c \in PctColSet \cap rawFile.cols :
          \/ rawFile.rows[i][c] = <<>>
          \/ IsPercentText(rawFile.rows[i][c]) /\ rawFile.rows[i][c][1] \in DigitChars

\* C12: a cleaning run on a well-formed raw file writes the cleaned file and
\* the cleaning report and returns the data, and a transformation run on a
\* well-formed cleaned file writes the processed file and the transformation
\* report and returns the data, whatever else exists in the project, results/
\* included.
C12_IndependentRerun ==
    /\ (pc = "done" /\ RawWellFormed) =>
          (ret = "df" /\ cleanedFile.exists /\ cleaningReport.exists)
    /\ (pc = "transformed" /\ CleanedWellTyped) =>
          (ret = "df" /\ processedFile.exists /\ transformationReport.exists)

\* C13: after a successful acquisition the raw file under the project root
\* exists, and no lending_club_raw.csv has been written under another
\* directory.
C13_RawHandOff ==
    (pc = "acquired" /\ ret = "df") => (rawFile.exists /\ ~cwdRawFile.exists)

-----------------------------------------------------------------------------
(* The dashboard's claims, under SpecDashboard *)

\* C14: after a dashboard run that wrote the index, the chart names the index
\* lists are exactly the charts that run rendered.
C14_IndexListsProduced ==
    (pc = "dashboard" /\ ret = "True") =>
        {dashboard.index[i] : i \in 1..Len(dashboard.index)} = dashboard.rendered

\* the rows of the processed file whose is_good_loan is the text t
LoansOf(t) ==
    Cardinality({i \in 1..Len(processedFile.rows) : processedFile.rows[i]["is_good_loan"] = t})

\* C16: when the loan status chart is rendered, the bar labelled "Good Loans
\* (1)" is as high as the number of rows with is_good_loan = 1 and the bar
\* labelled "Bad Loans (0)" as high as the number of rows with is_good_loan = 0.
C16_StatusBarHeights ==
    (pc = "dashboard" /\ ChartNames[1] \in dashboard.rendered) =>
        \A i \in 1..Len(dashboard.bars) :
            /\ dashboard.bars[i].label = "Good Loans (1)" =>
                  dashboard.bars[i].height = LoansOf(<<"1">>)
            /\ dashboard.bars[i].label = "Bad Loans (0)" =>
                  dashboard.bars[i].height = LoansOf(<<"0">>)

-----------------------------------------------------------------------------
(* The cleaning report's claim, under SpecClean *)

\* the place of a step in the fixed order
StepRank(what) ==
    CASE what = "empty" -> 1
      [] what = "high_missing" -> 2
      [] what = "duplicates" -> 3
      [] what = "missing" -> 4
      [] what = "converted" -> 5

InStepOrder(st) ==
    \A i \in 1..Len(st) : \A j \in i..Len(st) : StepRank(st[i].what) <= StepRank(st[j].what)

\* the position after each step of the run
NextStep(p) ==
    CASE p = "empty_cols" -> "high_missing"
      [] p = "high_missing" -> "duplicates"
      [] p = "duplicates" -> "key_cols"
      [] p = "key_cols" -> "percent"
      [] p = "percent" -> "save"

\* C15: a cleaning step adds an entry to the steps list only when it changed
\* the table (removed a row or a column, or changed a value); the entries are
\* in the order empty columns, >80%-missing columns, duplicates, missing key
\* columns, percent conversion; every step is run, listed or not; and the
\* report's STEPS PERFORMED lines are that list.
C15_ReportListsEffects ==
    [][/\ (pc \in {"empty_cols", "high_missing", "duplicates", "key_cols", "percent"} /\ pc' # "done") =>
              /\ pc' = NextStep(pc)
              /\ steps' # steps => df' # df
              /\ InStepOrder(steps')
       /\ cleaningReport' # cleaningReport => cleaningReport'.rows = steps
      ]_vars

-----------------------------------------------------------------------------
(* The transformation's frame claim, under SpecTransform *)

\* the file p has the rows of the file c, in their order, with the value c has
\* in every column that is not a derived one
KeepsInput(c, p) ==
    /\ Len(p.rows) = Len(c.rows)
    /\ (c.cols \ DerivedCols) \subseteq p.cols
    /\ LET before == ReadCsv(c)
           after == ReadCsv(p)
       IN \A i \in 1..Len(c.rows) : \A col \in c.cols \ DerivedCols :
              after.rows[i].val[col] = before.rows[i].val[col]

\* C17: a transformation run leaves cleaned_data.csv as it was, and the
\* processed file it writes has the rows of the cleaned file, in the same
\* order, every column that is not one of the five derived ones keeping its
\* value in every row.
C17_InputUnchanged ==
    [][pc' = "transformed" =>
          /\ cleanedFile' = cleanedFile
          /\ processedFile'.exists => KeepsInput(cleanedFile, processedFile')
      ]_vars

\* two different rows with a purpose, a column no derivation reads, went
\* through the transformation
C17_Witness ==
    /\ pc = "transformed"
    /\ ret = "df"
    /\ Len(cleanedFile.rows) = 2
    /\ cleanedFile.rows[1] # cleanedFile.rows[2]
    /\ "purpose" \in cleanedFile.cols
    /\ cleanedFile.rows[1]["purpose"] = <<"c", "a", "r">>
    /\ processedFile.rows[1]["purpose"] = <<"c", "a", "r">>
    /\ processedFile.cols # cleanedFile.cols

=============================================================================
